---- MODULE Spec2Model ----
(***************************************************************************)
(* State-machine model of src/app/page.tsx: the Home component of the      *)
(* audio transcription page.  The state is the six useState slots, the     *)
(* pending setTimeout callbacks, and the position of the one asynchronous  *)
(* handleSubmit invocation together with what its closure captured.        *)
(***************************************************************************)
EXTENDS Integers, Sequences, FiniteSets, TLC

VARIABLES
    file,          \* useState<File | null>, line 28
    transcript,    \* useState<string>, line 29
    isLoading,     \* useState<boolean>, line 30
    error,         \* useState<string>, line 31
    progress,      \* useState<number>, line 32
    requestCount,  \* useState<number>, line 33
    timers,        \* pending setTimeout callbacks of line 84, oldest first
    pc,            \* where the running handleSubmit is suspended
    submitted,     \* the `file` captured by the running handleSubmit closure
    request,       \* the inlineData payload handed to generateContent
    calls,         \* generateContent calls made since the last setIsLoading(true)
    outstanding,   \* generateContent calls made and not yet settled
    event,         \* history: the handler or callback that ran last
    inputBytes,    \* encoder on its own: the ArrayBuffer given to arrayBufferToBase64
    base64,        \* encoder on its own: the string it returned
    decoded,       \* encoder on its own: the bytes the receiver decodes from it
    stage          \* encoder on its own: "input", "encoded" or "decoded"

\* the state of the page
appVars == <<file, transcript, isLoading, error, progress, requestCount,
             timers, pc, submitted, request, calls, outstanding, event>>

\* the state of the encoder exercised on its own
codecVars == <<inputBytes, base64, decoded, stage>>

vars == <<appVars, codecVars>>

-----------------------------------------------------------------------------
(* Module constants, lines 10-13 *)

MAX_FILE_SIZE == 10 * 1024 * 1024

MAX_REQUESTS_PER_MINUTE == 10

REQUEST_INTERVAL == 60 * 1000

SUPPORTED_FORMATS == <<"audio/mp3", "audio/mpeg", "audio/wav", "audio/x-wav", "audio/ogg">>

(* The three messages passed to setError, lines 39, 43, 56, 87 *)
SizeError == "File size exceeds the maximum limit of 10MB."

FormatError == "Unsupported audio format. Please upload an MP3, WAV, or OGG file."

RateLimitError == "Rate limit exceeded. Please wait before making another request."

TranscribeError == "Error transcribing audio. Please try again."

-----------------------------------------------------------------------------
(* Bounds of the model *)

\* the clock advances in steps of REQUEST_INTERVAL / TicksPerInterval ms
TicksPerInterval == 2

TickMs == REQUEST_INTERVAL \div TicksPerInterval

\* texts the transcription service may return
Texts == {"", "hello"}

\* the null of useState<File | null>
NoFile == [name |-> "null", size |-> 0, type |-> ""]

\* files[0] of an empty FileList (the picker was cancelled)
Undefined == [name |-> "undefined", size |-> 0, type |-> ""]

NoRequest == [mimeType |-> "", data |-> <<"none">>]

\* candidate files the picker may deliver: File.name, File.size, File.type
Candidates ==
    { [name |-> "a.mp3",     size |-> 3,                 type |-> "audio/mp3"],
      [name |-> "limit.wav", size |-> MAX_FILE_SIZE,     type |-> "audio/wav"],
      [name |-> "big.ogg",   size |-> MAX_FILE_SIZE + 1, type |-> "audio/ogg"],
      [name |-> "clip.mp4",  size |-> 2048,              type |-> "video/mp4"] }

\* a wider choice of candidates: every size around the limit with every type
PickerSizes == {MAX_FILE_SIZE - 1, MAX_FILE_SIZE, MAX_FILE_SIZE + 1}

PickerTypes == {"audio/mp3", "audio/mpeg", "audio/wav", "audio/x-wav", "audio/ogg",
                "audio/flac", ""}

PickerCandidates ==
    Candidates \cup
        { [name |-> "picked", size |-> s, type |-> t] : s \in PickerSizes, t \in PickerTypes }

\* the bytes file.arrayBuffer() yields for each file (content abbreviated)
FileBytes(f) ==
    CASE f.name = "a.mp3"     -> <<77, 97, 110>>
      [] f.name = "limit.wav" -> <<82, 73, 70, 70>>
      [] f.name = "picked"    -> <<251, 255>>
      [] OTHER                -> <<>>

-----------------------------------------------------------------------------
(* Pure helpers *)

Max(a, b) == IF a >= b THEN a ELSE b

Min(a, b) == IF a <= b THEN a ELSE b

\* Array.prototype.includes over SUPPORTED_FORMATS, line 15
isAudioFormatSupported(f) ==
    \E i \in 1..Len(SUPPORTED_FORMATS) : SUPPORTED_FORMATS[i] = f.type

\* the base64 alphabet used by window.btoa
B64Alphabet ==
    << "A","B","C","D","E","F","G","H","I","J","K","L","M","N","O","P",
       "Q","R","S","T","U","V","W","X","Y","Z","a","b","c","d","e","f",
       "g","h","i","j","k","l","m","n","o","p","q","r","s","t","u","v",
       "w","x","y","z","0","1","2","3","4","5","6","7","8","9","+","/" >>

B64Char(n) == B64Alphabet[n + 1]

\* window.btoa on a binary string given as its char codes (each 0..255):
\* every group of three chars gives four base64 characters, the last group
\* padded with "="
btoa(binary) ==
    LET n == Len(binary)
        code(i) == IF i <= n THEN binary[i] ELSE 0
        char(k) ==
            LET g  == (k - 1) \div 4
                j  == (k - 1) % 4
                c1 == code(3 * g + 1)
                c2 == code(3 * g + 2)
                c3 == code(3 * g + 3)
            IN  CASE j = 0 -> B64Char(c1 \div 4)
                  [] j = 1 -> B64Char((c1 % 4) * 16 + c2 \div 16)
                  [] j = 2 -> IF 3 * g + 2 > n THEN "="
                              ELSE B64Char((c2 % 16) * 4 + c3 \div 64)
                  [] j = 3 -> IF 3 * g + 3 > n THEN "="
                              ELSE B64Char(c3 % 64)
    IN  [k \in 1..(4 * ((n + 2) \div 3)) |-> char(k)]

\* mutant: the loop stops one byte early (i < len - 1)
arrayBufferToBase64_StopsEarly(buffer) ==
    LET binary == [i \in 1..(Len(buffer) - 1) |-> buffer[i]]
    IN  btoa(binary)

\* lines 17-25: one char code per byte, then btoa
arrayBufferToBase64(buffer) ==
    LET binary == [i \in 1..Len(buffer) |-> buffer[i]]
    IN  btoa(binary)

\* the value of a base64 character
B64Index(c) ==
    IF \E n \in 0..63 : B64Alphabet[n + 1] = c
    THEN CHOOSE n \in 0..63 : B64Alphabet[n + 1] = c
    ELSE 0

\* standard base64 decoding, as the receiver of inlineData.data applies it;
\* <<-1>> stands for a string that is not valid base64
atob(str) ==
    LET n   == Len(str)
        pad == IF n >= 2 /\ str[n] = "=" /\ str[n - 1] = "=" THEN 2
               ELSE IF n >= 1 /\ str[n] = "=" THEN 1
               ELSE 0
        valid ==
            /\ n % 4 = 0
            /\ \A k \in 1..(n - pad) : \E m \in 0..63 : B64Alphabet[m + 1] = str[k]
        byte(i) ==
            LET g  == (i - 1) \div 3
                j  == (i - 1) % 3
                s1 == B64Index(str[4 * g + 1])
                s2 == B64Index(str[4 * g + 2])
                s3 == B64Index(str[4 * g + 3])
                s4 == B64Index(str[4 * g + 4])
            IN  CASE j = 0 -> s1 * 4 + s2 \div 16
                  [] j = 1 -> (s2 % 16) * 16 + s3 \div 4
                  [] j = 2 -> (s3 % 4) * 64 + s4
    IN  IF valid THEN [i \in 1..(3 * (n \div 4) - pad) |-> byte(i)] ELSE <<-1>>

\* inputs of the encoder on its own: every sequence of at most MaxBufferLen
\* sample bytes, every single byte, and the sequence 0, 1, ..., 255
MaxBufferLen == 4

SampleBytes == {0, 1, 127, 128, 254, 255}

SeqsUpTo(n) == UNION { [1..k -> SampleBytes] : k \in 0..n }

Ramp == [i \in 1..256 |-> i - 1]

Buffers == SeqsUpTo(MaxBufferLen) \cup { <<b>> : b \in 0..255 } \cup {Ramp}

-----------------------------------------------------------------------------
\* history record: the handler that ran, the file or text it was given
Event(op, f, text) == [op |-> op, file |-> f, text |-> text]

(* Initial state: the useState initial values, lines 28-33 *)

AppInit ==
    /\ file = NoFile
    /\ transcript = ""
    /\ isLoading = FALSE
    /\ error = ""
    /\ progress = 0
    /\ requestCount = 0
    /\ timers = <<>>
    /\ pc = "idle"
    /\ submitted = NoFile
    /\ request = NoRequest
    /\ calls = 0
    /\ outstanding = 0
    /\ event = Event("init", NoFile, "")

Init ==
    /\ AppInit
    /\ inputBytes = <<>>
    /\ base64 = <<>>
    /\ decoded = <<>>
    /\ stage = "unused"

-----------------------------------------------------------------------------
(* handleFileChange, lines 35-49 *)

\* mutant: the type check runs before the size check
HandleFileChange_FormatFirst(selectedFile) ==
    /\ event' = Event("handleFileChange", selectedFile, "")
    /\ IF selectedFile = Undefined
       THEN UNCHANGED <<file, error>>
       ELSE IF ~isAudioFormatSupported(selectedFile)
       THEN /\ error' = FormatError
            /\ UNCHANGED file
       ELSE IF selectedFile.size > MAX_FILE_SIZE
       THEN /\ error' = SizeError
            /\ UNCHANGED file
       ELSE /\ file' = selectedFile
            /\ error' = ""
    /\ UNCHANGED <<transcript, isLoading, progress, requestCount, timers,
                   pc, submitted, request, calls>>
    /\ UNCHANGED <<outstanding, codecVars>>

\* mutant: setFile runs before the checks
HandleFileChange_StoresFirst(selectedFile) ==
    /\ event' = Event("handleFileChange", selectedFile, "")
    /\ IF selectedFile = Undefined
       THEN UNCHANGED <<file, error>>
       ELSE /\ file' = selectedFile
            /\ IF selectedFile.size > MAX_FILE_SIZE
               THEN error' = SizeError
               ELSE IF ~isAudioFormatSupported(selectedFile)
               THEN error' = FormatError
               ELSE error' = ""
    /\ UNCHANGED <<transcript, isLoading, progress, requestCount, timers,
                   pc, submitted, request, calls>>
    /\ UNCHANGED <<outstanding, codecVars>>

\* mutant: the size check is >= instead of >
HandleFileChange_SizeInclusive(selectedFile) ==
    /\ event' = Event("handleFileChange", selectedFile, "")
    /\ IF selectedFile = Undefined
       THEN UNCHANGED <<file, error>>
       ELSE IF selectedFile.size >= MAX_FILE_SIZE
       THEN /\ error' = SizeError
            /\ UNCHANGED file
       ELSE IF ~isAudioFormatSupported(selectedFile)
       THEN /\ error' = FormatError
            /\ UNCHANGED file
       ELSE /\ file' = selectedFile
            /\ error' = ""
    /\ UNCHANGED <<transcript, isLoading, progress, requestCount, timers,
                   pc, submitted, request, calls>>
    /\ UNCHANGED <<outstanding, codecVars>>

\* selectedFile.size on the undefined files[0] of an empty FileList throws a
\* TypeError at line 38 before any setter runs
HandleFileChange(selectedFile) ==
    /\ event' = Event("handleFileChange", selectedFile, "")
    /\ IF selectedFile = Undefined
       THEN UNCHANGED <<file, error>>
       ELSE IF selectedFile.size > MAX_FILE_SIZE
       THEN /\ error' = SizeError
            /\ UNCHANGED file
       ELSE IF ~isAudioFormatSupported(selectedFile)
       THEN /\ error' = FormatError
            /\ UNCHANGED file
       ELSE /\ file' = selectedFile
            /\ error' = ""
    /\ UNCHANGED <<transcript, isLoading, progress, requestCount, timers,
                   pc, submitted, request, calls>>
    /\ UNCHANGED <<outstanding, codecVars>>

-----------------------------------------------------------------------------
(* handleSubmit, lines 51-92 *)

\* mutant: the button is disabled only while no file is selected
SubmitEnabled_IgnoresLoading == file # NoFile

\* the submit button is enabled, line 117: disabled={!file || isLoading}
SubmitEnabled == file # NoFile /\ ~isLoading

\* mutant: setProgress(100) is missing
Finally_NoProgress ==
    /\ isLoading' = FALSE
    /\ UNCHANGED progress
    /\ pc' = "idle"
    /\ submitted' = NoFile
    /\ request' = NoRequest
    /\ calls' = 0

\* the finally block, lines 88-91, and the end of the invocation
Finally ==
    /\ isLoading' = FALSE
    /\ progress' = 100
    /\ pc' = "idle"
    /\ submitted' = NoFile
    /\ request' = NoRequest
    /\ calls' = 0

\* the catch block, lines 85-87
Catch == error' = TranscribeError

\* mutant: setTimeout called without its delay
NewTimer_NoDelay == [delay |-> 0, elapsed |-> 0]

\* setTimeout(..., REQUEST_INTERVAL), line 84
NewTimer == [delay |-> REQUEST_INTERVAL, elapsed |-> 0]

\* mutant: the gate is > instead of >=
HandleSubmit_OffByOne ==
    /\ SubmitEnabled
    /\ event' = Event("handleSubmit", file, "")
    /\ IF file = NoFile
       THEN UNCHANGED <<isLoading, error, progress, pc, submitted, calls>>
       ELSE IF requestCount > MAX_REQUESTS_PER_MINUTE
       THEN /\ error' = RateLimitError
            /\ UNCHANGED <<isLoading, progress, pc, submitted, calls>>
       ELSE /\ isLoading' = TRUE
            /\ error' = ""
            /\ progress' = 0
            /\ pc' = "arrayBuffer"
            /\ submitted' = file
            /\ calls' = 0
    /\ UNCHANGED <<file, transcript, requestCount, timers, request>>
    /\ UNCHANGED <<outstanding, codecVars>>

\* mutant: the gate is missing
HandleSubmit_NoGate ==
    /\ SubmitEnabled
    /\ event' = Event("handleSubmit", file, "")
    /\ IF file = NoFile
       THEN UNCHANGED <<isLoading, error, progress, pc, submitted, calls>>
       ELSE /\ isLoading' = TRUE
            /\ error' = ""
            /\ progress' = 0
            /\ pc' = "arrayBuffer"
            /\ submitted' = file
            /\ calls' = 0
    /\ UNCHANGED <<file, transcript, requestCount, timers, request>>
    /\ UNCHANGED <<outstanding, codecVars>>

\* mutant: setProgress(0) is missing
HandleSubmit_KeepsProgress ==
    /\ SubmitEnabled
    /\ event' = Event("handleSubmit", file, "")
    /\ IF file = NoFile
       THEN UNCHANGED <<isLoading, error, progress, pc, submitted, calls>>
       ELSE IF requestCount >= MAX_REQUESTS_PER_MINUTE
       THEN /\ error' = RateLimitError
            /\ UNCHANGED <<isLoading, progress, pc, submitted, calls>>
       ELSE /\ isLoading' = TRUE
            /\ error' = ""
            /\ UNCHANGED progress
            /\ pc' = "arrayBuffer"
            /\ submitted' = file
            /\ calls' = 0
    /\ UNCHANGED <<file, transcript, requestCount, timers, request>>
    /\ UNCHANGED <<outstanding, codecVars>>

\* mutant: setError('') is missing
HandleSubmit_KeepsError ==
    /\ SubmitEnabled
    /\ event' = Event("handleSubmit", file, "")
    /\ IF file = NoFile
       THEN UNCHANGED <<isLoading, error, progress, pc, submitted, calls>>
       ELSE IF requestCount >= MAX_REQUESTS_PER_MINUTE
       THEN /\ error' = RateLimitError
            /\ UNCHANGED <<isLoading, progress, pc, submitted, calls>>
       ELSE /\ isLoading' = TRUE
            /\ UNCHANGED error
            /\ progress' = 0
            /\ pc' = "arrayBuffer"
            /\ submitted' = file
            /\ calls' = 0
    /\ UNCHANGED <<file, transcript, requestCount, timers, request>>
    /\ UNCHANGED <<outstanding, codecVars>>

\* mutant: a new submission clears the transcript
HandleSubmit_ClearsTranscript ==
    /\ SubmitEnabled
    /\ event' = Event("handleSubmit", file, "")
    /\ IF file = NoFile
       THEN UNCHANGED <<isLoading, error, progress, pc, submitted, calls, transcript>>
       ELSE IF requestCount >= MAX_REQUESTS_PER_MINUTE
       THEN /\ error' = RateLimitError
            /\ UNCHANGED <<isLoading, progress, pc, submitted, calls, transcript>>
       ELSE /\ isLoading' = TRUE
            /\ error' = ""
            /\ progress' = 0
            /\ transcript' = ""
            /\ pc' = "arrayBuffer"
            /\ submitted' = file
            /\ calls' = 0
    /\ UNCHANGED <<file, requestCount, timers, request>>
    /\ UNCHANGED <<outstanding, codecVars>>

\* the synchronous part up to the first await, lines 52-66
HandleSubmit ==
    /\ SubmitEnabled
    /\ event' = Event("handleSubmit", file, "")
    /\ IF file = NoFile
       THEN UNCHANGED <<isLoading, error, progress, pc, submitted, calls>>
       ELSE IF requestCount >= MAX_REQUESTS_PER_MINUTE
       THEN /\ error' = RateLimitError
            /\ UNCHANGED <<isLoading, progress, pc, submitted, calls>>
       ELSE /\ isLoading' = TRUE
            /\ error' = ""
            /\ progress' = 0
            /\ pc' = "arrayBuffer"
            /\ submitted' = file
            /\ calls' = 0
    /\ UNCHANGED <<file, transcript, requestCount, timers, request>>
    /\ UNCHANGED <<outstanding, codecVars>>

\* mutant: the raw bytes are sent, not their base64 encoding
ArrayBufferResolve_Raw ==
    /\ pc = "arrayBuffer"
    /\ request' = [mimeType |-> submitted.type, data |-> FileBytes(submitted)]
    /\ calls' = calls + 1
    /\ pc' = "generateContent"
    /\ event' = Event("arrayBufferResolved", submitted, "")
    /\ UNCHANGED <<file, transcript, isLoading, error, progress, requestCount,
                   timers, submitted>>
    /\ outstanding' = outstanding + 1
    /\ UNCHANGED codecVars

\* mutant: the request is built from the file selected now, not the captured one
ArrayBufferResolve_CurrentFile ==
    /\ pc = "arrayBuffer"
    /\ LET base64Audio == arrayBufferToBase64(FileBytes(file))
       IN  request' = [mimeType |-> file.type, data |-> base64Audio]
    /\ calls' = calls + 1
    /\ pc' = "generateContent"
    /\ event' = Event("arrayBufferResolved", submitted, "")
    /\ UNCHANGED <<file, transcript, isLoading, error, progress, requestCount,
                   timers, submitted>>
    /\ outstanding' = outstanding + 1
    /\ UNCHANGED codecVars

\* file.arrayBuffer() resolves: lines 67-77 encode and call generateContent
ArrayBufferResolve ==
    /\ pc = "arrayBuffer"
    /\ LET base64Audio == arrayBufferToBase64(FileBytes(submitted))
       IN  request' = [mimeType |-> submitted.type, data |-> base64Audio]
    /\ calls' = calls + 1
    /\ pc' = "generateContent"
    /\ event' = Event("arrayBufferResolved", submitted, "")
    /\ UNCHANGED <<file, transcript, isLoading, error, progress, requestCount,
                   timers, submitted>>
    /\ outstanding' = outstanding + 1
    /\ UNCHANGED codecVars

\* mutant: the flags are reset on the success path only (no finally block)
ArrayBufferReject_NoFinally ==
    /\ pc = "arrayBuffer"
    /\ Catch
    /\ pc' = "idle"
    /\ submitted' = NoFile
    /\ request' = NoRequest
    /\ calls' = 0
    /\ event' = Event("arrayBufferRejected", submitted, "")
    /\ UNCHANGED <<file, transcript, requestCount, timers, isLoading, progress>>
    /\ UNCHANGED <<outstanding, codecVars>>

\* file.arrayBuffer() rejects (the file can no longer be read): catch, finally
ArrayBufferReject ==
    /\ pc = "arrayBuffer"
    /\ Catch
    /\ Finally
    /\ event' = Event("arrayBufferRejected", submitted, "")
    /\ UNCHANGED <<file, transcript, requestCount, timers>>
    /\ UNCHANGED <<outstanding, codecVars>>

\* mutant: the transcript is stored only when the text is non-empty
GenerateContentResolve_SkipsEmpty(text) ==
    /\ pc = "generateContent"
    /\ transcript' = IF text = "" THEN transcript ELSE text
    /\ requestCount' = requestCount + 1
    /\ timers' = Append(timers, NewTimer)
    /\ Finally
    /\ event' = Event("generateContentResolved", submitted, text)
    /\ UNCHANGED <<file, error>>
    /\ outstanding' = outstanding - 1
    /\ UNCHANGED codecVars

\* mutant: setTimeout is missing, no decrement is scheduled
GenerateContentResolve_NoTimer(text) ==
    /\ pc = "generateContent"
    /\ transcript' = text
    /\ requestCount' = requestCount + 1
    /\ UNCHANGED timers
    /\ Finally
    /\ event' = Event("generateContentResolved", submitted, text)
    /\ UNCHANGED <<file, error>>
    /\ outstanding' = outstanding - 1
    /\ UNCHANGED codecVars

\* generateContent resolves and response.text() returns, lines 79-84, 88-91
GenerateContentResolve(text) ==
    /\ pc = "generateContent"
    /\ transcript' = text
    /\ requestCount' = requestCount + 1
    /\ timers' = Append(timers, NewTimer)
    /\ Finally
    /\ event' = Event("generateContentResolved", submitted, text)
    /\ UNCHANGED <<file, error>>
    /\ outstanding' = outstanding - 1
    /\ UNCHANGED codecVars

\* mutant: a rejected call is counted like a success
GenerateContentReject_Counts ==
    /\ pc = "generateContent"
    /\ Catch
    /\ Finally
    /\ requestCount' = requestCount + 1
    /\ timers' = Append(timers, NewTimer)
    /\ event' = Event("generateContentRejected", submitted, "")
    /\ UNCHANGED <<file, transcript>>
    /\ outstanding' = outstanding - 1
    /\ UNCHANGED codecVars

\* generateContent rejects (network or service failure): catch, finally
GenerateContentReject ==
    /\ pc = "generateContent"
    /\ Catch
    /\ Finally
    /\ event' = Event("generateContentRejected", submitted, "")
    /\ UNCHANGED <<file, transcript, requestCount, timers>>
    /\ outstanding' = outstanding - 1
    /\ UNCHANGED codecVars

\* mutant: the failure clears the transcript
ResponseTextThrow_ClearsTranscript ==
    /\ pc = "generateContent"
    /\ Catch
    /\ Finally
    /\ transcript' = ""
    /\ event' = Event("responseTextThrew", submitted, "")
    /\ UNCHANGED <<file, requestCount, timers>>
    /\ outstanding' = outstanding - 1
    /\ UNCHANGED codecVars

\* generateContent resolves but response.text() throws at line 80
ResponseTextThrow ==
    /\ pc = "generateContent"
    /\ Catch
    /\ Finally
    /\ event' = Event("responseTextThrew", submitted, "")
    /\ UNCHANGED <<file, transcript, requestCount, timers>>
    /\ outstanding' = outstanding - 1
    /\ UNCHANGED codecVars

-----------------------------------------------------------------------------
(* The timer callback of line 84 and the passage of time *)

Due(t) == t.elapsed >= t.delay

RemoveAt(s, i) == SubSeq(s, 1, i - 1) \o SubSeq(s, i + 1, Len(s))

\* mutant: the callback resets the counter instead of lowering it by one
TimerFire_Reset ==
    /\ \E i \in 1..Len(timers) :
          /\ Due(timers[i])
          /\ timers' = RemoveAt(timers, i)
    /\ requestCount' = 0
    /\ event' = Event("timerFired", NoFile, "")
    /\ UNCHANGED <<file, transcript, isLoading, error, progress,
                   pc, submitted, request, calls>>
    /\ UNCHANGED <<outstanding, codecVars>>

\* a due callback runs: setRequestCount(prevCount => Math.max(prevCount - 1, 0))
TimerFire ==
    /\ \E i \in 1..Len(timers) :
          /\ Due(timers[i])
          /\ timers' = RemoveAt(timers, i)
    /\ requestCount' = Max(requestCount - 1, 0)
    /\ event' = Event("timerFired", NoFile, "")
    /\ UNCHANGED <<file, transcript, isLoading, error, progress,
                   pc, submitted, request, calls>>
    /\ UNCHANGED <<outstanding, codecVars>>

\* the clock advances by TickMs; elapsed time is tracked up to the delay
Tick ==
    /\ \E i \in 1..Len(timers) : ~Due(timers[i])
    /\ timers' = [i \in 1..Len(timers) |->
                    [timers[i] EXCEPT !.elapsed = Min(@ + TickMs, timers[i].delay)]]
    /\ event' = Event("tick", NoFile, "")
    /\ UNCHANGED <<file, transcript, isLoading, error, progress, requestCount,
                   pc, submitted, request, calls>>
    /\ UNCHANGED <<outstanding, codecVars>>

-----------------------------------------------------------------------------

Next ==
    \/ \E c \in Candidates \cup {Undefined} : HandleFileChange(c)
    \/ HandleSubmit
    \/ ArrayBufferResolve
    \/ ArrayBufferReject
    \/ \E text \in Texts : GenerateContentResolve(text)
    \/ GenerateContentReject
    \/ ResponseTextThrow
    \/ TimerFire
    \/ Tick

Spec == Init /\ [][Next]_vars

\* the encoder on its own: arrayBufferToBase64 applied to a buffer, and the
\* receiver decoding the result
InitCodec ==
    /\ AppInit
    /\ inputBytes \in Buffers
    /\ base64 = <<>>
    /\ decoded = <<>>
    /\ stage = "input"

Encode ==
    /\ stage = "input"
    /\ base64' = arrayBufferToBase64(inputBytes)
    /\ stage' = "encoded"
    /\ UNCHANGED <<inputBytes, decoded, appVars>>

Decode ==
    /\ stage = "encoded"
    /\ decoded' = atob(base64)
    /\ stage' = "decoded"
    /\ UNCHANGED <<inputBytes, base64, appVars>>

NextCodec == Encode \/ Decode

SpecCodec == InitCodec /\ [][NextCodec]_vars

\* the promise of file.arrayBuffer() settles
ArrayBufferSettle == ArrayBufferResolve \/ ArrayBufferReject

\* the promise of generateContent settles
GenerateContentSettle ==
    \/ \E text \in Texts : GenerateContentResolve(text)
    \/ GenerateContentReject
    \/ ResponseTextThrow

\* the candidates of the fair specification: one accepted, one rejected
LiveCandidates ==
    { [name |-> "a.mp3",    size |-> 3,    type |-> "audio/mp3"],
      [name |-> "clip.mp4", size |-> 2048, type |-> "video/mp4"] }

NextLive ==
    \/ \E c \in LiveCandidates : HandleFileChange(c)
    \/ HandleSubmit
    \/ ArrayBufferResolve
    \/ ArrayBufferReject
    \/ \E text \in Texts : GenerateContentResolve(text)
    \/ GenerateContentReject
    \/ ResponseTextThrow
    \/ TimerFire
    \/ Tick

\* the page stays open: pending promises settle, time passes, due callbacks run
FairSpec ==
    /\ Init /\ [][NextLive]_vars
    /\ WF_vars(ArrayBufferSettle)
    /\ WF_vars(GenerateContentSettle)
    /\ WF_vars(Tick)
    /\ WF_vars(TimerFire)

\* the session within one rate-limit window (no callback comes due), with the
\* wider choice of candidate files
NextPicker ==
    \/ \E c \in PickerCandidates \cup {Undefined} : HandleFileChange(c)
    \/ HandleSubmit
    \/ ArrayBufferResolve
    \/ ArrayBufferReject
    \/ \E text \in Texts : GenerateContentResolve(text)
    \/ GenerateContentReject
    \/ ResponseTextThrow

SpecPicker == Init /\ [][NextPicker]_vars

-----------------------------------------------------------------------------
(* Steps of the behaviour, named by the handler that took them *)

\* handleFileChange ran on a candidate over the size limit
SizeRejection ==
    event'.op = "handleFileChange" /\ event'.file \in PickerCandidates
        /\ event'.file.size > MAX_FILE_SIZE

\* handleFileChange ran on a candidate within the size limit, type not allowed
FormatRejection ==
    event'.op = "handleFileChange" /\ event'.file \in PickerCandidates
        /\ event'.file.size <= MAX_FILE_SIZE
        /\ event'.file.type \notin {"audio/mp3", "audio/mpeg", "audio/wav",
                                     "audio/x-wav", "audio/ogg"}

\* handleFileChange ran on a candidate within the size limit, type allowed
ValidSelection ==
    event'.op = "handleFileChange" /\ event'.file \in PickerCandidates
        /\ event'.file.size <= MAX_FILE_SIZE
        /\ event'.file.type \in {"audio/mp3", "audio/mpeg", "audio/wav",
                                  "audio/x-wav", "audio/ogg"}

\* handleSubmit ran with a file selected and the counter at or above the maximum
RateLimitedSubmit ==
    event'.op = "handleSubmit" /\ file # NoFile
        /\ requestCount >= MAX_REQUESTS_PER_MINUTE

\* the running submission ended in the catch block
FailedAttempt ==
    event'.op \in {"arrayBufferRejected", "generateContentRejected", "responseTextThrew"}

\* the running submission ended with a transcript
Success == event'.op = "generateContentResolved"

-----------------------------------------------------------------------------
(* Claims *)

\* C1: a submission made with a file selected while requestCount >= 10 is
\* rejected: the rate-limit message is set, no external call is made, and
\* isLoading, progress, transcript, file and requestCount keep their values.
C1_RateLimitRejects ==
    [][RateLimitedSubmit =>
          /\ error' = RateLimitError
          /\ calls' = calls /\ request' = request /\ pc' = "idle"
          /\ isLoading' = isLoading /\ progress' = progress
          /\ transcript' = transcript /\ file' = file
          /\ requestCount' = requestCount]_vars

C1_Witness ==
    /\ event.op = "handleSubmit"
    /\ requestCount = MAX_REQUESTS_PER_MINUTE
    /\ error = RateLimitError
    /\ ~isLoading /\ pc = "idle" /\ calls = 0

\* C2: in every reachable state 0 <= requestCount <= MAX_REQUESTS_PER_MINUTE.
C2_CounterInRange ==
    requestCount >= 0 /\ requestCount <= MAX_REQUESTS_PER_MINUTE

C2_Witness ==
    /\ requestCount = MAX_REQUESTS_PER_MINUTE
    /\ event.op = "generateContentResolved"

\* C3: a success raises requestCount by exactly one in the same step and
\* schedules one callback; a callback lowers requestCount by exactly one, runs
\* once (it leaves the pending set when it runs), and runs only when at least
\* REQUEST_INTERVAL ms have passed since it was scheduled; requestCount never
\* drops below zero and drops only when a callback runs.
C3_IncrementThenDelayedDecrement ==
    [][/\ Success =>
            /\ requestCount' = requestCount + 1
            /\ Len(timers') = Len(timers) + 1
            /\ SubSeq(timers', 1, Len(timers)) = timers
            /\ timers'[Len(timers')].elapsed = 0
       /\ event'.op = "timerFired" =>
            /\ requestCount' = requestCount - 1
            /\ \E i \in 1..Len(timers) :
                  /\ timers[i].elapsed >= REQUEST_INTERVAL
                  /\ timers' = RemoveAt(timers, i)
       /\ requestCount' < requestCount => event'.op = "timerFired"
       /\ Len(timers') < Len(timers) => event'.op = "timerFired"
       /\ requestCount' >= 0]_vars

C3_Witness ==
    /\ event.op = "timerFired"
    /\ requestCount = 1
    /\ Len(timers) = 1
    /\ timers[1].elapsed < REQUEST_INTERVAL

\* C4: a size or format rejection in handleFileChange, a rate-limit rejection
\* in handleSubmit, and a submission that ends in the catch block each leave
\* requestCount unchanged and schedule no callback.
C4_OnlySuccessCounts ==
    [][(SizeRejection \/ FormatRejection \/ RateLimitedSubmit \/ FailedAttempt) =>
          requestCount' = requestCount /\ timers' = timers]_vars

C4_Witness ==
    /\ event.op = "generateContentRejected"
    /\ requestCount = 2
    /\ Len(timers) = 2
    /\ error = TranscribeError

\* C5: right after a successful call the transcript is the returned text,
\* isLoading is false and progress is 100.
C5_SuccessOutcome ==
    event.op = "generateContentResolved" =>
        transcript = event.text /\ ~isLoading /\ progress = 100

C5_Witness ==
    /\ event.op = "generateContentResolved"
    /\ event.text = ""
    /\ transcript = ""
    /\ requestCount >= 2
    /\ progress = 100 /\ ~isLoading

\* C6: a submission that ends in the catch block leaves the transcript as it
\* was, sets the generic message, clears isLoading and sets progress to 100;
\* no step of the attempt other than a success writes the transcript.
C6_FailureOutcome ==
    [][/\ FailedAttempt =>
            /\ transcript' = transcript
            /\ error' = TranscribeError
            /\ ~isLoading'
            /\ progress' = 100
       /\ transcript' # transcript => Success]_vars

C6_Witness ==
    /\ event.op \in {"arrayBufferRejected", "responseTextThrew"}
    /\ transcript = "hello"
    /\ error = TranscribeError
    /\ ~isLoading /\ progress = 100

\* C7: handleFileChange on a candidate larger than MAX_FILE_SIZE sets the
\* size-limit message and leaves the selected file as it was, whatever the
\* candidate's type and whatever the state.
C7_OversizeRejected ==
    [][SizeRejection => error' = SizeError /\ file' = file]_vars

C7_Witness ==
    /\ event.op = "handleFileChange"
    /\ event.file.size > MAX_FILE_SIZE
    /\ event.file.type = "audio/x-wav"
    /\ error = SizeError
    /\ file # NoFile /\ file # event.file
    /\ isLoading

\* C8: handleFileChange on a candidate of at most MAX_FILE_SIZE bytes whose
\* type is not in the allow-list sets the format message and leaves the
\* selected file as it was.
C8_FormatRejected ==
    [][FormatRejection => error' = FormatError /\ file' = file]_vars

C8_Witness ==
    /\ event.op = "handleFileChange"
    /\ event.file.size = MAX_FILE_SIZE
    /\ event.file.type = "audio/flac"
    /\ error = FormatError
    /\ file # NoFile /\ file # event.file

\* C9: handleFileChange on a candidate of at most MAX_FILE_SIZE bytes whose
\* type is in the allow-list stores it as the selected file and clears the
\* error; transcript, isLoading, progress and requestCount are unchanged.
C9_ValidAccepted ==
    [][ValidSelection =>
          /\ file' = event'.file
          /\ error' = ""
          /\ transcript' = transcript /\ isLoading' = isLoading
          /\ progress' = progress /\ requestCount' = requestCount]_vars

C9_Witness ==
    /\ event.op = "handleFileChange"
    /\ event.file.size = MAX_FILE_SIZE
    /\ event.file.type = "audio/mpeg"
    /\ file = event.file
    /\ error = ""
    /\ transcript = "hello" /\ progress = 100
    /\ requestCount = MAX_REQUESTS_PER_MINUTE

\* C10 as stated: every submission that entered Loading has made exactly one
\* external call by the time it leaves Loading.
C10_ExactlyOneCallPerLoading ==
    [][(isLoading /\ ~isLoading') => calls = 1]_vars

\* C10 amended: a submission that entered Loading makes at most one external
\* call: exactly one unless file.arrayBuffer() rejects, and then none.  The
\* call is made only while Loading, after the gate passed, with the captured
\* file's type and the base64 encoding of its bytes; Loading is entered only
\* with requestCount below the maximum.
C10_CallPerLoading ==
    [][/\ calls' > calls =>
            /\ calls' = 1
            /\ isLoading /\ pc = "arrayBuffer" /\ submitted # NoFile
            /\ request' = [mimeType |-> submitted.type,
                           data |-> arrayBufferToBase64(FileBytes(submitted))]
       /\ request' # request /\ request' # NoRequest => calls' > calls
       /\ (isLoading /\ ~isLoading') =>
            (calls = 1 <=> event'.op # "arrayBufferRejected")
       /\ (~isLoading /\ isLoading') =>
            /\ requestCount < MAX_REQUESTS_PER_MINUTE
            /\ calls' = 0 /\ request' = NoRequest]_vars

C10_Witness ==
    /\ event.op = "arrayBufferResolved"
    /\ calls = 1
    /\ isLoading
    /\ request = [mimeType |-> "audio/mp3", data |-> <<"T", "W", "F", "u">>]

\* C11: at most one generateContent call is outstanding at any time, and no
\* handleSubmit runs (so none enters Loading) while isLoading is true.
C11_OneOutstandingCall ==
    [][/\ outstanding' <= 1
       /\ event'.op = "handleSubmit" => ~isLoading
       /\ (isLoading /\ isLoading') => submitted' = submitted]_vars

C11_Witness ==
    /\ outstanding = 1
    /\ isLoading
    /\ pc = "generateContent"
    /\ event.op = "handleFileChange"
    /\ file # submitted

\* C14: a submission made with a file selected and requestCount below the
\* maximum sets isLoading, clears the error and sets progress to 0 before any
\* external call is made; transcript, file and requestCount keep their values.
C14_AcceptedSubmit ==
    [][(event'.op = "handleSubmit" /\ file # NoFile
            /\ requestCount < MAX_REQUESTS_PER_MINUTE) =>
          /\ isLoading' /\ error' = "" /\ progress' = 0
          /\ calls' = 0 /\ outstanding' = 0 /\ request' = NoRequest
          /\ transcript' = transcript /\ file' = file
          /\ requestCount' = requestCount]_vars

C14_Witness ==
    /\ event.op = "handleSubmit"
    /\ isLoading /\ error = "" /\ progress = 0
    /\ transcript = "hello"
    /\ requestCount = MAX_REQUESTS_PER_MINUTE - 1

\* C15 as stated: no reachable state has isLoading true and a non-empty error.
C15_NoErrorWhileLoading == ~(isLoading /\ error # "")

\* C15 amended: isLoading is true with a non-empty error only after a file
\* selection rejected during Loading: the error is then the size or the format
\* message, the step that set it is a handleFileChange step taken during
\* Loading, and the step that enters Loading leaves no error set.
C15_ErrorWhileLoadingOnlyFromPicker ==
    [][/\ (isLoading' /\ error' # "") => error' \in {SizeError, FormatError}
       /\ (isLoading' /\ error' # "" /\ ~(isLoading /\ error # "")) =>
            (event'.op = "handleFileChange" /\ isLoading)
       /\ event'.op = "handleSubmit" => ~(isLoading' /\ error' # "")]_vars

C15_Witness ==
    /\ isLoading
    /\ error = FormatError
    /\ event.op = "handleFileChange"
    /\ pc = "generateContent"

\* C16: only handleFileChange changes the selected file (no step of a
\* submission does, so it stays selected after success and after failure); the
\* transcript changes only in a success step, which sets it to the returned text.
C16_FileAndTranscriptFrame ==
    [][/\ file' # file => event'.op = "handleFileChange"
       /\ transcript' # transcript => Success
       /\ Success => transcript' = event'.text
       /\ (event'.op = "handleSubmit" \/ FailedAttempt) =>
            (transcript' = transcript /\ file' = file)]_vars

C16_Witness ==
    /\ event.op = "handleSubmit"
    /\ isLoading
    /\ transcript = "hello"
    /\ file = submitted /\ file # NoFile
    /\ requestCount = 0

\* C17: progress is 0 or 100 in every state and 0 throughout Loading; it
\* becomes 100 exactly in the step that ends an accepted submission (success
\* or failure) and returns to 0 only when a submission is accepted; rejected
\* submissions and file selections leave it unchanged.
C17_ProgressBinary ==
    [][/\ progress' \in {0, 100}
       /\ isLoading' => progress' = 0
       /\ (Success \/ FailedAttempt) => progress' = 100
       /\ (progress' # progress /\ progress' = 100) => (Success \/ FailedAttempt)
       /\ (progress' # progress /\ progress' = 0) =>
            (event'.op = "handleSubmit" /\ isLoading')
       /\ (RateLimitedSubmit \/ event'.op = "handleFileChange") =>
            progress' = progress]_vars

C17_Witness ==
    /\ progress = 100
    /\ event.op = "handleSubmit"
    /\ error = RateLimitError
    /\ ~isLoading

\* C18: requestCount equals the number of scheduled callbacks that have not
\* run, so when a callback runs requestCount is at least one and the floor
\* of Math.max(prevCount - 1, 0) is not taken.
C18_CountEqualsPendingTimers ==
    /\ requestCount = Len(timers)
    /\ timers # <<>> => requestCount - 1 >= 0

C18_Witness ==
    /\ event.op = "timerFired"
    /\ requestCount = 3
    /\ Len(timers) = 3
    /\ isLoading

\* C20: the request of a running submission carries the type and the encoded
\* bytes of the file that was selected when it was submitted, whatever file is
\* selected meanwhile; the steps that settle it leave the selected file alone.
C20_RequestFromSubmittedFile ==
    [][/\ (event'.op = "handleSubmit" /\ isLoading') => submitted' = file
       /\ (isLoading /\ isLoading') => submitted' = submitted
       /\ pc' = "generateContent" =>
            request' = [mimeType |-> submitted'.type,
                        data |-> arrayBufferToBase64(FileBytes(submitted'))]
       /\ (isLoading /\ ~isLoading') => file' = file]_vars

C20_Witness ==
    /\ event.op = "generateContentResolved"
    /\ event.file.name = "a.mp3"
    /\ file.name = "limit.wav"
    /\ ~isLoading

C19_NoPermanentLockout ==
    /\ (requestCount >= MAX_REQUESTS_PER_MINUTE) ~>
            (requestCount < MAX_REQUESTS_PER_MINUTE)
    /\ []<>(requestCount = 0 \/ event.op = "generateContentResolved")

C19_Witness ==
    /\ event.op = "timerFired"
    /\ requestCount = MAX_REQUESTS_PER_MINUTE - 1
    /\ error = RateLimitError
    /\ file # NoFile /\ ~isLoading

\* C13: decoding the output of arrayBufferToBase64 gives back the input
\* bytes exactly, and the output has four characters for every three input
\* bytes, rounded up (nothing is cut off).
C13_Base64RoundTrip ==
    /\ stage \in {"encoded", "decoded"} =>
            Len(base64) = 4 * ((Len(inputBytes) + 2) \div 3)
    /\ stage = "decoded" => decoded = inputBytes

C13_Witness ==
    /\ stage = "decoded"
    /\ inputBytes = Ramp
    /\ decoded = Ramp
    /\ Len(base64) = 344

====
